---- MODULE Spec2Model ----
(***************************************************************************)
(* A model of the rockpi-penta daemon's core: the temperature -> duty      *)
(* curve (misc.fan_temp2dc), the fan controller loop (fan.py), the button  *)
(* gesture recognizer (misc.read_key / misc.watch_key), the I/O rate       *)
(* calculator (misc.get_interface_io_rate / misc.get_disk_io_rate), the    *)
(* disk temperature poll (misc.get_disk_temp_info) and misc.fan_switch     *)
(* under concurrent callers.                                               *)
(*                                                                         *)
(* Python floats are modelled as exact rationals <<n, d>> (d > 0, lowest   *)
(* terms); clock readings are integers in units of 0.1 s for the fan       *)
(* controller and of 1 s for the I/O samples.                              *)
(***************************************************************************)
EXTENDS Integers, Sequences, FiniteSets, TLC

VARIABLES
    \* ---- fan controller (fan.py) and the shared flag (misc.conf['run'])
    conf,               \* conf['fan']: lv0..lv3 thresholds and the linear flag
    run,                \* conf['run'].value, 1 = the fan is supposed to run
    now,                \* time.time(), in 0.1 s
    get_cache,          \* get_dc's cache dict: 'time' and 'dc'
    chg_cache,          \* change_dc's cache dict: 'dc'
    pin13,              \* what pin13.write last received
    fpc,                \* where running() is: "get" or "change"
    dc,                 \* the value get_dc returned to running()
    tread,              \* history: the last get_dc called read_cpu_temp
    wres,               \* history: what the last change_dc did with pin13.write
    spc,                \* per fan_switch caller: "idle" or "write" (value read)
    stmp,               \* per fan_switch caller: the conf['run'].value it read
    nswitch,            \* history: fan_switch calls begun
    qtod,               \* wall-clock hour of a quiet-hours evaluation
    qdc,                \* its result, NoDc before the evaluation
    f_temp,             \* conf['oled']['f-temp']
    disk_temp_average,  \* conf['disk_temp_average'].value
    last_fan_poll_time, \* last_fan_poll_time[0]
    temp_call,          \* history: what smartctl gave the last disk poll
    \* ---- the curve as a pure function
    ctemp,              \* two temperatures fan_temp2dc is applied to
    cdc,                \* its two results
    \* ---- gesture recognizer (misc.watch_key / misc.read_key)
    size,               \* int(conf['time']['press'] * 10)
    wait,               \* int(conf['time']['twice'] * 10)
    s,                  \* read_key's window, as last matched against
    ret,                \* what that iteration of read_key returned, or "none"
    q,                  \* the action queue watch_key puts to
    fed,                \* history: every sample pin11.read() has returned
    pressed,            \* history: a press began since the last queued action
    \* ---- I/O rate calculator (misc.get_interface_io_rate / get_disk_io_rate)
    raw_interface_io,   \* interface -> its last raw sample
    interface_io_rate,  \* interface -> its rx and tx rates, MB/s
    raw_disk_io,        \* disk -> its last raw sample
    disk_io_rate,       \* disk -> its rx and tx rates, MB/s
    disk_sector_sizes,  \* disk -> bytes per sector, once asked for
    io_err,             \* the exception the last poll raised to its caller
    io_call,            \* history: the last poll's function, key and sample
    npolls              \* history: the number of polls made

fanVars == <<conf, run, now, get_cache, chg_cache, pin13, fpc, dc, tread, wres>>
curveVars == <<ctemp, cdc>>
keyVars == <<size, wait, s, ret, q, fed, pressed>>
ioVars == <<raw_interface_io, interface_io_rate, raw_disk_io, disk_io_rate,
           disk_sector_sizes, io_err, io_call, npolls>>
switchVars == <<spc, stmp, nswitch>>
quietVars == <<qtod, qdc>>
tempVars == <<f_temp, disk_temp_average, last_fan_poll_time, temp_call>>
extVars == <<switchVars, quietVars, tempVars>>
vars == <<fanVars, curveVars, keyVars, ioVars, extVars>>

-----------------------------------------------------------------------------
(* Bounds of the model.                                                    *)

\* time.time() at start-up, in 0.1 s (any value above the refresh interval)
StartNow == 60
\* how far, in 0.1 s, the clock runs past StartNow
MaxElapsed == 54
\* the temperatures drawn are 28, 34, ..., 28 + 6 * TempSpan degrees
TempSpan == 4
\* actions the queue holds before the recognizer is stopped
MaxQueue == 2
\* samples of a recorded button stream, and the runs of equal samples in it
MaxFed == 21
MaxRuns == 5
\* polls of the I/O rate calculator in one run
MaxPolls == 3

-----------------------------------------------------------------------------
(* Exact rationals for Python's float arithmetic.                          *)

Abs(x) == IF x < 0 THEN -x ELSE x

RECURSIVE Gcd(_, _)
Gcd(a, b) == IF b = 0 THEN a ELSE Gcd(b, a % b)

\* n / d in lowest terms with a positive denominator (d # 0)
Rat(n, d) ==
    LET g == Gcd(Abs(n), Abs(d))
        sg == IF d < 0 THEN -1 ELSE 1
    IN  <<(sg * n) \div g, (sg * d) \div g>>

RInt(i) == <<i, 1>>
RAdd(a, b) == Rat(a[1] * b[2] + b[1] * a[2], a[2] * b[2])
RSub(a, b) == Rat(a[1] * b[2] - b[1] * a[2], a[2] * b[2])
RMul(a, b) == Rat(a[1] * b[1], a[2] * b[2])
RDiv(a, b) == Rat(a[1] * b[2], a[2] * b[1])
RLeq(a, b) == a[1] * b[2] <= b[1] * a[2]
RLt(a, b) == a[1] * b[2] < b[1] * a[2]
\* Python's min(a, b) and max(a, b)
RMin(a, b) == IF RLt(b, a) THEN b ELSE a
RMax(a, b) == IF RLt(a, b) THEN b ELSE a

-----------------------------------------------------------------------------
(* misc.fan_temp2dc: the duty curve, in percent.                           *)

\* lv2dc = OrderedDict({'lv3': 100, 'lv2': 75, 'lv1': 50, 'lv0': 25}),
\* in its iteration order
lv2dc == << <<"lv3", 100>>, <<"lv2", 75>>, <<"lv1", 50>>, <<"lv0", 25>> >>

\* lv2dc[k]
Lv2dcGet(k) == lv2dc[CHOOSE i \in 1..Len(lv2dc) : lv2dc[i][1] = k][2]

\* the value of the function's last line, "return 10"
FallThroughDc == RInt(10)

\* faulty variant: the comparison made strict
RECURSIVE SteppedScanStrict(_, _, _)
SteppedScanStrict(c, temp, i) ==
    IF i > Len(lv2dc) THEN FallThroughDc
    ELSE IF temp > c[lv2dc[i][1]] THEN RInt(lv2dc[i][2])
    ELSE SteppedScanStrict(c, temp, i + 1)

\* for lv, dc in lv2dc.items(): if temp >= conf['fan'][lv]: return dc
RECURSIVE SteppedScan(_, _, _)
SteppedScan(c, temp, i) ==
    IF i > Len(lv2dc) THEN FallThroughDc
    ELSE IF temp >= c[lv2dc[i][1]] THEN RInt(lv2dc[i][2])
    ELSE SteppedScan(c, temp, i + 1)

\* faulty variant: a flat curve when the denominator is not positive
LinearSlopeFlat(c) ==
    LET denominator == c["lv3"] - c["lv0"]
    IN  IF denominator > 0
        THEN Rat(Lv2dcGet("lv3") - Lv2dcGet("lv0"), denominator)
        ELSE RInt(0)

\* slope = (lv3_percent - lv0_percent) / denominator if denominator > 0 else 1.0
LinearSlope(c) ==
    LET denominator == c["lv3"] - c["lv0"]
    IN  IF denominator > 0
        THEN Rat(Lv2dcGet("lv3") - Lv2dcGet("lv0"), denominator)
        ELSE RInt(1)

\* faulty variant: the upper bound left out
LinearDcUnbounded(c, temp) ==
    LET lv0_percent == RInt(Lv2dcGet("lv0"))
    IN  RMax(RAdd(RMul(LinearSlope(c), RInt(temp - c["lv0"])), lv0_percent),
             lv0_percent)

\* dc = min(lv3_percent, max(slope * (temp - base_temp) + lv0_percent, lv0_percent))
LinearDc(c, temp) ==
    LET lv0_percent == RInt(Lv2dcGet("lv0"))
        lv3_percent == RInt(Lv2dcGet("lv3"))
        base_temp == c["lv0"]
    IN  RMin(lv3_percent,
             RMax(RAdd(RMul(LinearSlope(c), RInt(temp - base_temp)), lv0_percent),
                  lv0_percent))

fan_temp2dc(c, temp) ==
    IF c["linear"] THEN LinearDc(c, temp) ELSE SteppedScan(c, temp, 1)

-----------------------------------------------------------------------------
(* Configurations and temperatures the model draws from.  read_conf takes  *)
(* any four floats: ordered, equal and disordered thresholds all occur.    *)

\* read_conf's fallback thresholds
DefaultLv == [lv0 |-> 35, lv1 |-> 40, lv2 |-> 45, lv3 |-> 50]

LvChoices ==
    { DefaultLv,
      [lv0 |-> 30, lv1 |-> 40, lv2 |-> 45, lv3 |-> 46],
      [lv0 |-> 40, lv1 |-> 40, lv2 |-> 40, lv3 |-> 40],
      [lv0 |-> 50, lv1 |-> 45, lv2 |-> 40, lv3 |-> 35],
      [lv0 |-> 45, lv1 |-> 35, lv2 |-> 50, lv3 |-> 40] }

MkConf(l, lin) ==
    [lv0 |-> l.lv0, lv1 |-> l.lv1, lv2 |-> l.lv2, lv3 |-> l.lv3, linear |-> lin]

Confs == { MkConf(l, lin) : l \in LvChoices, lin \in BOOLEAN }

\* degrees: below, between, on and above the thresholds of LvChoices
Temps == { 28 + 6 * k : k \in 0..TempSpan }

-----------------------------------------------------------------------------
(* fan.py: get_dc, change_dc and the running() loop.                       *)

NoDc == <<-1, 1>>           \* cache.get('dc') of a cache holding no 'dc'
NoWrite == <<-1, 1>>        \* pin13 before its first write

\* "return 0.1": the duty get_dc returns while the fan is switched off
DisabledDc == Rat(1, 10)

\* the refresh interval of get_dc, 5 s, in 0.1 s
RefreshInterval == 50

\* time.sleep(0.1) returns after one tick, or later on a loaded system
SleepAdvances == {1, 26, 51}

\* faulty variant: the percent taken for a ratio
OffRatioNoPercent(d) == RSub(RInt(1), d)

\* pin13.write(1 - (dc / 100))
OffRatio(d) == RSub(RInt(1), RDiv(d, RInt(100)))

\* faulty variant: a fresh cache answers before the flag is looked at
GetDcDisabledAfterCache ==
    /\ run = 0
    /\ dc' = (IF now - get_cache.time > RefreshInterval THEN DisabledDc
              ELSE get_cache.dc)
    /\ tread' = FALSE
    /\ UNCHANGED get_cache

\* if not(misc.fan_running()): return 0.1
GetDcDisabled ==
    /\ run = 0
    /\ dc' = DisabledDc
    /\ tread' = FALSE
    /\ UNCHANGED get_cache

\* faulty variant: the cache is refilled on every later tick
GetDcRefreshEager ==
    /\ run # 0
    /\ now - get_cache.time > 0
    /\ \E temp \in Temps :
          /\ get_cache' = [time |-> now, dc |-> fan_temp2dc(conf, temp)]
          /\ dc' = fan_temp2dc(conf, temp)
    /\ tread' = TRUE

\* if time.time() - cache.get('time', 0) > 5: refill the cache from
\* misc.fan_temp2dc(read_cpu_temp()); return cache['dc']
GetDcRefresh ==
    /\ run # 0
    /\ now - get_cache.time > RefreshInterval
    /\ \E temp \in Temps :
          /\ get_cache' = [time |-> now, dc |-> fan_temp2dc(conf, temp)]
          /\ dc' = fan_temp2dc(conf, temp)
    /\ tread' = TRUE

\* return cache['dc'] of the earlier refresh
GetDcCached ==
    /\ run # 0
    /\ ~(now - get_cache.time > RefreshInterval)
    /\ dc' = get_cache.dc
    /\ tread' = FALSE
    /\ UNCHANGED get_cache

GetDc ==
    /\ fpc = "get"
    /\ GetDcDisabled \/ GetDcRefresh \/ GetDcCached
    /\ fpc' = "change"
    /\ UNCHANGED <<conf, run, now, chg_cache, pin13, wres>>

\* time.sleep(0.1), then the loop's next iteration
Sleep ==
    /\ \E d \in SleepAdvances :
          /\ now + d <= StartNow + MaxElapsed
          /\ now' = now + d
    /\ fpc' = "get"

\* faulty variant: the duty is written on every tick
ChangeDcAlways ==
    /\ fpc = "change"
    /\ chg_cache' = dc
    /\ pin13' = OffRatio(dc)
    /\ wres' = "ok"
    /\ Sleep
    /\ UNCHANGED <<conf, run, get_cache, dc, tread>>

\* change_dc(dc) with a pin13.write that succeeds, then time.sleep(0.1)
ChangeDc ==
    /\ fpc = "change"
    /\ IF dc # chg_cache
       THEN /\ chg_cache' = dc
            /\ pin13' = OffRatio(dc)
            /\ wres' = "ok"
       ELSE /\ wres' = "none"
            /\ UNCHANGED <<chg_cache, pin13>>
    /\ Sleep
    /\ UNCHANGED <<conf, run, get_cache, dc, tread>>

\* change_dc(dc) with a pin13.write that may fail.  What a failed write
\* does is the library's business: it returns an error result, which
\* change_dc does not look at, or it raises, and then nothing in
\* change_dc or running catches the exception and the loop is over.
\* Either way cache['dc'] was assigned before the call.
ChangeDcUnreliable ==
    /\ fpc = "change"
    /\ IF dc # chg_cache
       THEN /\ chg_cache' = dc
            /\ \E out \in {"ok", "error", "raised"} :
                  /\ wres' = out
                  /\ pin13' = (IF out = "ok" THEN OffRatio(dc) ELSE pin13)
                  /\ IF out = "raised"
                     THEN fpc' = "dead" /\ UNCHANGED now
                     ELSE Sleep
       ELSE /\ wres' = "none"
            /\ UNCHANGED <<chg_cache, pin13>>
            /\ Sleep
    /\ UNCHANGED <<conf, run, get_cache, dc, tread>>

\* misc.fan_switch, called by the one process that dispatches key actions
fan_switch ==
    /\ run' = (IF run # 0 THEN 0 ELSE 1)
    /\ UNCHANGED <<conf, now, get_cache, chg_cache, pin13, fpc, dc, tread, wres>>

-----------------------------------------------------------------------------
(* misc.watch_key and misc.read_key: the gesture recognizer.  A sample is  *)
(* 0 or 1, as pin11.read() returns it; a window is a sequence of samples.  *)

\* read_conf's fallbacks: int(1.8 * 10) and int(0.7 * 10)
DefaultSize == 18
DefaultWait == 7

\* A compiled pattern is a sequence of items <<c, n>>, each the regular
\* expression c{n,} (c+ is c{1,}).  The dict keeps its insertion order.
\* faulty variant: 'twice' entered before 'click'
PatternTwiceFirst(sz, wt) ==
    << <<"twice", << <<1, 1>>, <<0, 1>>, <<1, 1>>, <<0, 1>>, <<1, 3>> >> >>,
       <<"click", << <<1, 1>>, <<0, 1>>, <<1, wt>> >> >>,
       <<"press", << <<1, 1>>, <<0, sz>> >> >> >>

\* faulty variant: 'click' asks for one settle sample too many
PatternLongSettle(sz, wt) ==
    << <<"click", << <<1, 1>>, <<0, 1>>, <<1, wt + 2>> >> >>,
       <<"twice", << <<1, 1>>, <<0, 1>>, <<1, 1>>, <<0, 1>>, <<1, 3>> >> >>,
       <<"press", << <<1, 1>>, <<0, sz>> >> >> >>

\* 'click': 1+0+1{wait,}   'twice': 1+0+1+0+1{3,}   'press': 1+0{size,}
pattern(sz, wt) ==
    << <<"click", << <<1, 1>>, <<0, 1>>, <<1, wt>> >> >>,
       <<"twice", << <<1, 1>>, <<0, 1>>, <<1, 1>>, <<0, 1>>, <<1, 3>> >> >>,
       <<"press", << <<1, 1>>, <<0, sz>> >> >> >>

\* how many samples equal to c stand in a row from position i of str on
RECURSIVE RunLen(_, _, _)
RunLen(str, i, c) ==
    IF i > Len(str) \/ str[i] # c THEN 0 ELSE 1 + RunLen(str, i + 1, c)

\* items k.. of p match str from position i on (re match: anchored at the
\* start only; an item takes any number n of its character that is at
\* least its minimum and that the rest of the pattern can follow)
RECURSIVE MatchFrom(_, _, _, _)
MatchFrom(str, i, p, k) ==
    IF k > Len(p) THEN TRUE
    ELSE \E n \in p[k][2]..RunLen(str, i, p[k][1]) :
            MatchFrom(str, i + n, p, k + 1)

\* p.match(str)
Match(p, str) == MatchFrom(str, 1, p, 1)

\* for t, p in pattern.items(): if p.match(s): return t
RECURSIVE FirstMatch(_, _, _)
FirstMatch(pats, str, i) ==
    IF i > Len(pats) THEN "none"
    ELSE IF Match(pats[i][2], str) THEN pats[i][1]
    ELSE FirstMatch(pats, str, i + 1)

\* faulty variant: one sample fewer is kept
LastNShort(str, n) ==
    IF n = 0 \/ Len(str) <= n - 1 THEN str
    ELSE SubSeq(str, Len(str) - n + 2, Len(str))

\* str[-n:]
LastN(str, n) ==
    IF n = 0 \/ Len(str) <= n THEN str
    ELSE SubSeq(str, Len(str) - n + 1, Len(str))

\* pin11 goes from released (1) to held (0) with this sample
PressStart(level) == s # <<>> /\ s[Len(s)] = 1 /\ level = 0

\* faulty variant: the window is kept across a match
ReadKeyStepNoReset(level) ==
    LET w == LastN(s, size) \o <<level>>
        t == FirstMatch(pattern(size, wait), w, 1)
    IN  /\ s' = w
        /\ ret' = t
        /\ q' = (IF t = "none" THEN q ELSE Append(q, t))
        /\ pressed' = (IF t = "none" THEN pressed \/ PressStart(level)
                       ELSE FALSE)
        /\ UNCHANGED <<size, wait>>

\* One iteration of read_key's loop with pin11.read() = level: the window
\* is cut to its last size samples and the sample appended, the patterns
\* are tried, and on a match read_key returns and watch_key queues the
\* action; its next call of read_key starts again from s = ''.
ReadKeyStep(level) ==
    LET held == IF ret = "none" THEN s ELSE <<>>
        w == LastN(held, size) \o <<level>>
        t == FirstMatch(pattern(size, wait), w, 1)
    IN  /\ s' = w
        /\ ret' = t
        /\ q' = (IF t = "none" THEN q ELSE Append(q, t))
        /\ pressed' = (IF t = "none" THEN pressed \/ PressStart(level)
                       ELSE FALSE)
        /\ UNCHANGED <<size, wait>>

-----------------------------------------------------------------------------
(* misc.get_interface_io_rate and misc.get_disk_io_rate.  Counters are     *)
(* integers (bytes, sectors), sample times are in seconds.                 *)

Interfaces == {"eth0", "wlan0"}

\* disk names as get_disk_list gives them, character by character
DiskArgs == { <<"s", "d", "a", "1">>, <<"s", "d", "a", "2">>, <<"s", "d", "b">> }

Digits == {"0", "1", "2", "3", "4", "5", "6", "7", "8", "9"}

\* "sd" in disk
HasSd(disk) ==
    \E i \in 1..(Len(disk) - 1) : disk[i] = "s" /\ disk[i + 1] = "d"

\* while "sd" in disk and disk[-1].isdigit(): disk = disk[:-1]
RECURSIVE delete_disk_partition_number(_)
delete_disk_partition_number(disk) ==
    IF HasSd(disk) /\ disk[Len(disk)] \in Digits
    THEN delete_disk_partition_number(SubSeq(disk, 1, Len(disk) - 1))
    ELSE disk

\* the keys the disk dicts can get
Disks == { delete_disk_partition_number(d) : d \in DiskArgs }

\* what /sys/block/<disk>/queue/hw_sector_size may hold
SectorSizes == {512, 4096}

\* a key the dict does not hold
NoSample == [rx |-> -1, tx |-> -1, time |-> -1]
NoRate == [rx |-> <<-1, 1>>, tx |-> <<-1, 1>>]
NoSize == -1

\* the rx and tx counters a sample may show, in MB, and the clock readings
CounterLevels == { <<100, 110>>, <<110, 100>>, <<110, 110>> }
SampleTimes == {100, 105}

\* get_interface_io: counters in bytes
InterfaceSamples ==
    { [rx |-> l[1] * 1024 * 1024, tx |-> l[2] * 1024 * 1024, time |-> tm] :
        l \in CounterLevels, tm \in SampleTimes }

\* get_disk_io: counters in sectors (2048 sectors of 512 bytes to the MB)
DiskSamples ==
    { [rx |-> l[1] * 2048, tx |-> l[2] * 2048, time |-> tm] :
        l \in CounterLevels, tm \in SampleTimes }

\* faulty variant: one division by 1024 left out
InterfaceRateKB(new, old, duration) ==
    RDiv(Rat(new - old, duration), RInt(1024))

\* ((raw - last) / duration) / 1024 / 1024
InterfaceRate(new, old, duration) ==
    RDiv(RDiv(Rat(new - old, duration), RInt(1024)), RInt(1024))

\* ((raw - last) / duration) / (1024 / disk_sector_sizes[disk]) / 1024
DiskRate(new, old, duration, ss) ==
    RDiv(RDiv(Rat(new - old, duration), Rat(1024, ss)), RInt(1024))

\* faulty variant: the first sample is not kept as the baseline
InterfaceFirstPollNotStored(interface, raw) ==
    /\ interface_io_rate' =
          [interface_io_rate EXCEPT ![interface] = [rx |-> RInt(0), tx |-> RInt(0)]]
    /\ UNCHANGED raw_interface_io
    /\ io_err' = "none"

\* the else branch: no sample of this interface yet
InterfaceFirstPoll(interface, raw) ==
    /\ interface_io_rate' =
          [interface_io_rate EXCEPT ![interface] = [rx |-> RInt(0), tx |-> RInt(0)]]
    /\ raw_interface_io' = [raw_interface_io EXCEPT ![interface] = raw]
    /\ io_err' = "none"

\* get_interface_io_rate(interface), raw being what get_interface_io returns
get_interface_io_rate(interface, raw) ==
    LET last == raw_interface_io[interface]
        duration == raw.time - last.time
    IN  IF last # NoSample
        THEN IF duration = 0
             THEN \* the division raises before anything is assigned
                  /\ io_err' = "ZeroDivisionError"
                  /\ UNCHANGED <<raw_interface_io, interface_io_rate>>
             ELSE /\ interface_io_rate' =
                        [interface_io_rate EXCEPT ![interface] =
                            [rx |-> InterfaceRate(raw.rx, last.rx, duration),
                             tx |-> InterfaceRate(raw.tx, last.tx, duration)]]
                  /\ raw_interface_io' = [raw_interface_io EXCEPT ![interface] = raw]
                  /\ io_err' = "none"
        ELSE InterfaceFirstPoll(interface, raw)

\* faulty variant: the sector size is asked for on every poll
NeedsSectorSizeAlways(disk) == TRUE

\* if not disk in disk_sector_sizes
NeedsSectorSize(disk) == disk_sector_sizes[disk] = NoSize

\* get_disk_io_rate(arg), raw being what get_disk_io returns and size_read
\* what get_sector_size reads if it is called: a size, or NoSize when the
\* command or int() raises, which ends the call before anything is stored
get_disk_io_rate(arg, raw, size_read) ==
    LET disk == delete_disk_partition_number(arg)
        ss == IF NeedsSectorSize(disk) THEN size_read
              ELSE disk_sector_sizes[disk]
        last == raw_disk_io[disk]
        duration == raw.time - last.time
    IN  IF ss = NoSize
        THEN /\ io_err' = "CalledProcessError"
             /\ UNCHANGED <<disk_sector_sizes, raw_disk_io, disk_io_rate>>
        ELSE
        /\ disk_sector_sizes' = [disk_sector_sizes EXCEPT ![disk] = ss]
        /\ IF last # NoSample
           THEN IF duration = 0
                THEN /\ io_err' = "ZeroDivisionError"
                     /\ UNCHANGED <<raw_disk_io, disk_io_rate>>
                ELSE /\ disk_io_rate' =
                           [disk_io_rate EXCEPT ![disk] =
                               [rx |-> DiskRate(raw.rx, last.rx, duration, ss),
                                tx |-> DiskRate(raw.tx, last.tx, duration, ss)]]
                     /\ raw_disk_io' = [raw_disk_io EXCEPT ![disk] = raw]
                     /\ io_err' = "none"
           ELSE /\ disk_io_rate' =
                      [disk_io_rate EXCEPT ![disk] = [rx |-> RInt(0), tx |-> RInt(0)]]
                /\ raw_disk_io' = [raw_disk_io EXCEPT ![disk] = raw]
                /\ io_err' = "none"

-----------------------------------------------------------------------------
(* Each part at rest, as the module's import leaves it.                    *)

\* ---------------------------------------------------------------------
\* fan_switch called from several processes: conf['run'] is an mp.Value,
\* whose .value property takes the lock for the read and again for the
\* write, so `conf['run'].value = not(conf['run'].value)` is two steps.
\* ---------------------------------------------------------------------

NumCallers == 3
MaxSwitch == 4

Callers == 1..NumCallers

\* not(v), stored in the 'i' Value
Not(v) == IF v = 0 THEN 1 ELSE 0

\* the right-hand side: read conf['run'].value
SwitchRead(p) ==
    /\ spc[p] = "idle"
    /\ nswitch < MaxSwitch
    /\ stmp' = [stmp EXCEPT ![p] = run]
    /\ spc' = [spc EXCEPT ![p] = "write"]
    /\ nswitch' = nswitch + 1
    /\ UNCHANGED run

\* the assignment: store not(value read)
SwitchWrite(p) ==
    /\ spc[p] = "write"
    /\ run' = Not(stmp[p])
    /\ spc' = [spc EXCEPT ![p] = "idle"]
    /\ UNCHANGED <<stmp, nswitch>>


\* ---------------------------------------------------------------------
\* Quiet hours.  The duty the dist-packages controller asks for comes
\* from rockpi_penta.misc.fan_temp2dc, a module that is not among the
\* sources; the clamp is taken from the specification's section 4.3, on
\* the off ratio of the curve above, with the hour as time of day.
\* ---------------------------------------------------------------------

silentstart == 22
silentend == 10
silentmaxlv == Rat(4, 10)

InQuietWindow(tod) ==
    IF silentstart <= silentend
    THEN tod >= silentstart /\ tod < silentend
    ELSE tod >= silentstart \/ tod < silentend

\* faulty variant: the window does not wrap past midnight
QuietClampNoWrap(duty, tod) ==
    LET floor == IF tod >= silentstart /\ tod < silentend
                 THEN RSub(RInt(1), silentmaxlv) ELSE RInt(0)
    IN  RMin(Rat(999, 1000), RMax(duty, floor))

\* inside the window the duty never drops below 1 - silentmaxlv; the
\* result is clamped to [0, 0.999]
QuietClamp(duty, tod) ==
    LET floor == IF InQuietWindow(tod)
                 THEN RSub(RInt(1), silentmaxlv) ELSE RInt(0)
    IN  RMin(Rat(999, 1000), RMax(duty, floor))

quiet_dc(c, temp, tod) == QuietClamp(OffRatio(fan_temp2dc(c, temp)), tod)


\* ---------------------------------------------------------------------
\* get_disk_temp_info: the disk temperature poll
\* ---------------------------------------------------------------------

\* the sd* drives lsblk may list
TempDisks == {"sda", "sdb", "sdc"}

\* what smartctl prints for a drive: a temperature in degrees Celsius, or
\* something float() rejects
Readings ==
    {[ok |-> FALSE, t |-> 0]} \cup {[ok |-> TRUE, t |-> x] : x \in {30, 40}}

\* disk_temp * 1.8 + 32 when conf['oled']['f-temp']
DiskTemp(r, f) ==
    IF f THEN RAdd(RMul(RInt(r.t), Rat(18, 10)), RInt(32)) ELSE RInt(r.t)

\* disk_temp_average after the loop: the readable temperatures added up
RECURSIVE TempSum(_, _, _)
TempSum(D, out, f) ==
    IF D = {} THEN RInt(0)
    ELSE LET d == CHOOSE x \in D : TRUE
         IN  RAdd(IF out[d].ok THEN DiskTemp(out[d], f) ELSE RInt(0),
                  TempSum(D \ {d}, out, f))

\* len(disks_temp): one key per drive, readable or not, and the key ''
\* when lsblk lists no drive
TempKeys(D) == IF D = {} THEN 1 ELSE Cardinality(D)

get_disk_temp_info(D, out, tm) ==
    /\ disk_temp_average' = RDiv(TempSum(D, out, f_temp), RInt(TempKeys(D)))
    /\ last_fan_poll_time' = tm
    /\ temp_call' = [polled |-> TRUE, disks |-> D, out |-> out]
    /\ UNCHANGED f_temp


FanIdle ==
    /\ run = 1
    /\ now = StartNow
    /\ get_cache = [time |-> 0, dc |-> NoDc]
    /\ chg_cache = NoDc
    /\ pin13 = NoWrite
    /\ fpc = "get"
    /\ dc = NoDc
    /\ tread = FALSE
    /\ wres = "none"

SwitchIdle ==
    /\ spc = [p \in Callers |-> "idle"]
    /\ stmp = [p \in Callers |-> 0]
    /\ nswitch = 0

QuietIdle == qtod = 0 /\ qdc = NoDc

NoTempCall == [polled |-> FALSE, disks |-> {}, out |-> <<>>]

TempIdle ==
    /\ f_temp = FALSE
    /\ disk_temp_average = RInt(0)
    /\ last_fan_poll_time = 0
    /\ temp_call = NoTempCall

ExtIdle == SwitchIdle /\ QuietIdle /\ TempIdle

CurveIdle == ctemp = <<28, 28>> /\ cdc = <<NoDc, NoDc>>

KeyIdle ==
    /\ size = DefaultSize /\ wait = DefaultWait
    /\ s = <<>> /\ ret = "none" /\ q = <<>> /\ fed = <<>>
    /\ pressed = FALSE

NoCall == [fn |-> "none", key |-> <<>>, raw |-> NoSample, queried |-> FALSE]

IoIdle ==
    /\ raw_interface_io = [i \in Interfaces |-> NoSample]
    /\ interface_io_rate = [i \in Interfaces |-> NoRate]
    /\ raw_disk_io = [d \in Disks |-> NoSample]
    /\ disk_io_rate = [d \in Disks |-> NoRate]
    /\ disk_sector_sizes = [d \in Disks |-> NoSize]
    /\ io_err = "none"
    /\ io_call = NoCall
    /\ npolls = 0

-----------------------------------------------------------------------------
(* The fan controller with the process that toggles the flag.              *)

Init ==
    /\ conf \in Confs
    /\ FanIdle
    /\ CurveIdle
    /\ KeyIdle
    /\ IoIdle
    /\ ExtIdle

Next ==
    \/ GetDc /\ UNCHANGED <<curveVars, keyVars, ioVars, extVars>>
    \/ ChangeDc /\ UNCHANGED <<curveVars, keyVars, ioVars, extVars>>
    \/ fan_switch /\ UNCHANGED <<curveVars, keyVars, ioVars, extVars>>

Spec == Init /\ [][Next]_vars

-----------------------------------------------------------------------------
(* The curve alone: fan_temp2dc applied to temperatures drawn in Init.     *)

InitCurve ==
    /\ conf \in Confs
    /\ ctemp \in Temps \X Temps
    /\ cdc = <<NoDc, NoDc>>
    /\ FanIdle
    /\ KeyIdle
    /\ IoIdle
    /\ ExtIdle

CurveEval(i) ==
    /\ cdc[i] = NoDc
    /\ cdc' = [cdc EXCEPT ![i] = fan_temp2dc(conf, ctemp[i])]
    /\ UNCHANGED <<ctemp, fanVars, keyVars, ioVars, extVars>>

NextCurve == \E i \in 1..2 : CurveEval(i)

SpecCurve == InitCurve /\ [][NextCurve]_vars

-----------------------------------------------------------------------------
(* The gesture recognizer alone.                                           *)

\* (size, wait) of other settings of time.press and time.twice
KeyConfs == { <<6, 1>>, <<5, 0>>, <<4, 2>> }

InitKey ==
    /\ \E kc \in KeyConfs : size = kc[1] /\ wait = kc[2]
    /\ s = <<>> /\ ret = "none" /\ q = <<>> /\ fed = <<>>
    /\ pressed = FALSE
    /\ conf = MkConf(DefaultLv, FALSE)
    /\ FanIdle
    /\ CurveIdle
    /\ IoIdle
    /\ ExtIdle

\* the button is sampled for as long as the queue has room
KeyTick(level) ==
    /\ Len(q) < MaxQueue
    /\ ReadKeyStep(level)
    /\ UNCHANGED <<fed, fanVars, curveVars, ioVars, extVars>>

NextKey == \E level \in 0..1 : KeyTick(level)

SpecKey == InitKey /\ [][NextKey]_vars

\* the number of runs of equal samples in a stream
Runs(str) ==
    IF str = <<>> THEN 0
    ELSE 1 + Cardinality({ i \in 1..(Len(str) - 1) : str[i] # str[i + 1] })

\* The recognizer under the default thresholds, its input recorded: any
\* stream of at most MaxFed samples in at most MaxRuns runs.
InitKeyDefault ==
    /\ KeyIdle
    /\ conf = MkConf(DefaultLv, FALSE)
    /\ FanIdle
    /\ CurveIdle
    /\ IoIdle
    /\ ExtIdle

KeyTickRecorded(level) ==
    /\ Len(fed) < MaxFed
    /\ Runs(Append(fed, level)) <= MaxRuns
    /\ ReadKeyStep(level)
    /\ fed' = Append(fed, level)
    /\ UNCHANGED <<fanVars, curveVars, ioVars, extVars>>

NextKeyDefault == \E level \in 0..1 : KeyTickRecorded(level)

SpecKeyDefault == InitKeyDefault /\ [][NextKeyDefault]_vars

\* The recognizer under the small thresholds, its input recorded: streams
\* several windows long.
InitKeyRecorded ==
    /\ \E kc \in KeyConfs : size = kc[1] /\ wait = kc[2]
    /\ s = <<>> /\ ret = "none" /\ q = <<>> /\ fed = <<>>
    /\ pressed = FALSE
    /\ conf = MkConf(DefaultLv, FALSE)
    /\ FanIdle
    /\ CurveIdle
    /\ IoIdle
    /\ ExtIdle

NextKeyRecorded == \E level \in 0..1 : KeyTickRecorded(level)

SpecKeyRecorded == InitKeyRecorded /\ [][NextKeyRecorded]_vars

-----------------------------------------------------------------------------
(* The I/O rate calculator alone: polls of any interface and disk, with    *)
(* any counters and clock readings, in any order.                          *)

InitIO ==
    /\ IoIdle
    /\ conf = MkConf(DefaultLv, FALSE)
    /\ FanIdle
    /\ CurveIdle
    /\ KeyIdle
    /\ ExtIdle

InterfacePoll ==
    /\ npolls < MaxPolls
    /\ \E interface \in Interfaces, raw \in InterfaceSamples :
          /\ get_interface_io_rate(interface, raw)
          /\ io_call' = [fn |-> "interface", key |-> interface, raw |-> raw,
                         queried |-> FALSE]
    /\ npolls' = npolls + 1
    /\ UNCHANGED <<raw_disk_io, disk_io_rate, disk_sector_sizes>>
    /\ UNCHANGED <<fanVars, curveVars, keyVars, extVars>>

DiskPoll ==
    /\ npolls < MaxPolls
    /\ \E arg \in DiskArgs, raw \in DiskSamples :
          LET disk == delete_disk_partition_number(arg)
              queried == NeedsSectorSize(disk)
          IN  \E size_read \in (IF queried THEN SectorSizes ELSE {}) \cup {NoSize} :
              /\ get_disk_io_rate(arg, raw, size_read)
              /\ io_call' = [fn |-> "disk", key |-> disk,
                             raw |-> (IF queried /\ size_read = NoSize
                                      THEN NoSample ELSE raw),
                             queried |-> queried]
    /\ npolls' = npolls + 1
    /\ UNCHANGED <<raw_interface_io, interface_io_rate>>
    /\ UNCHANGED <<fanVars, curveVars, keyVars, extVars>>

NextIO == InterfacePoll \/ DiskPoll

SpecIO == InitIO /\ [][NextIO]_vars

\* ---------------------------------------------------------------------
\* Specification of the fan controller with an actuator that may fail
\* ---------------------------------------------------------------------

InitFault ==
    /\ conf = MkConf(DefaultLv, FALSE)
    /\ FanIdle
    /\ CurveIdle
    /\ KeyIdle
    /\ IoIdle
    /\ ExtIdle

NextFault ==
    \/ GetDc /\ UNCHANGED <<curveVars, keyVars, ioVars, extVars>>
    \/ ChangeDcUnreliable /\ UNCHANGED <<curveVars, keyVars, ioVars, extVars>>
    \/ fan_switch /\ UNCHANGED <<curveVars, keyVars, ioVars, extVars>>

SpecFault == InitFault /\ [][NextFault]_vars

\* ---------------------------------------------------------------------
\* Specification of fan_switch under concurrent callers
\* ---------------------------------------------------------------------

InitSwitch ==
    /\ conf = MkConf(DefaultLv, FALSE)
    /\ FanIdle
    /\ CurveIdle
    /\ KeyIdle
    /\ IoIdle
    /\ ExtIdle

SwitchFrame ==
    UNCHANGED <<conf, now, get_cache, chg_cache, pin13, fpc, dc, tread, wres,
                curveVars, keyVars, ioVars, quietVars, tempVars>>

NextSwitch ==
    \E p \in Callers :
       \/ SwitchRead(p) /\ SwitchFrame
       \/ SwitchWrite(p) /\ SwitchFrame

SpecSwitch == InitSwitch /\ [][NextSwitch]_vars

\* ---------------------------------------------------------------------
\* Specification of the quiet-hours clamp as a pure function: every
\* configuration, temperature and hour of the day
\* ---------------------------------------------------------------------

InitQuiet ==
    /\ conf \in Confs
    /\ ctemp \in Temps \X {28}
    /\ qtod \in 0..23
    /\ qdc = NoDc
    /\ cdc = <<NoDc, NoDc>>
    /\ FanIdle
    /\ KeyIdle
    /\ IoIdle
    /\ SwitchIdle
    /\ TempIdle

QuietEval ==
    /\ qdc = NoDc
    /\ qdc' = quiet_dc(conf, ctemp[1], qtod)
    /\ UNCHANGED <<qtod, fanVars, curveVars, keyVars, ioVars, switchVars,
                   tempVars>>

NextQuiet == QuietEval

SpecQuiet == InitQuiet /\ [][NextQuiet]_vars

\* ---------------------------------------------------------------------
\* Specification of the disk temperature poll: any set of drives, each
\* readable or not, in either unit
\* ---------------------------------------------------------------------

InitTemp ==
    /\ f_temp \in BOOLEAN
    /\ disk_temp_average = RInt(0)
    /\ last_fan_poll_time = 0
    /\ temp_call = NoTempCall
    /\ conf = MkConf(DefaultLv, FALSE)
    /\ FanIdle
    /\ CurveIdle
    /\ KeyIdle
    /\ IoIdle
    /\ SwitchIdle
    /\ QuietIdle

DiskTempPoll ==
    /\ \E D \in SUBSET TempDisks, tm \in SampleTimes :
          \E out \in [D -> Readings] : get_disk_temp_info(D, out, tm)
    /\ UNCHANGED <<fanVars, curveVars, keyVars, ioVars, switchVars, quietVars>>

NextTemp == DiskTempPoll

SpecTemp == InitTemp /\ [][NextTemp]_vars

-----------------------------------------------------------------------------
(* Claims.                                                                 *)

\* C1: every value the controller has written to the actuator (pin13.write
\* of 1 - dc/100, dc from get_dc) lies in [0, 0.999], in stepped and linear
\* mode, for every threshold configuration, fan enabled or not.
C1_WrittenDutyInRange ==
    pin13 # NoWrite => RLeq(RInt(0), pin13) /\ RLeq(pin13, Rat(999, 1000))

\* the upper end is written (fan switched off) after the curve gave 100 %
C1_Witness ==
    /\ pin13 = Rat(999, 1000)
    /\ run = 0
    /\ get_cache.dc = RInt(100)

\* the duty the stepped scan pairs with temperature t: lv3's, else lv2's, ...
SteppedExpected(c, t) ==
    IF t >= c.lv3 THEN RInt(100)
    ELSE IF t >= c.lv2 THEN RInt(75)
    ELSE IF t >= c.lv1 THEN RInt(50)
    ELSE IF t >= c.lv0 THEN RInt(25)
    ELSE RInt(10)

Lv0Lowest(c) == c.lv0 <= c.lv1 /\ c.lv0 <= c.lv2 /\ c.lv0 <= c.lv3

\* C4 as stated: in stepped mode the result is the duty of the first
\* threshold, from lv3 down to lv0, that the temperature meets; it is the
\* idle duty for every temperature below lv0, and lv3's duty at or above lv3.
C4_SteppedAsStated ==
    \A i \in 1..2 :
        (~conf.linear /\ cdc[i] # NoDc) =>
            /\ cdc[i] = SteppedExpected(conf, ctemp[i])
            /\ (ctemp[i] < conf.lv0 => cdc[i] = FallThroughDc)
            /\ (ctemp[i] >= conf.lv3 => cdc[i] = RInt(Lv2dcGet("lv3")))

\* C4 amended: the idle duty below lv0 is promised only when lv0 is the
\* lowest of the four thresholds.
C4_SteppedLv0Lowest ==
    \A i \in 1..2 :
        (~conf.linear /\ cdc[i] # NoDc) =>
            /\ cdc[i] = SteppedExpected(conf, ctemp[i])
            /\ (Lv0Lowest(conf) /\ ctemp[i] < conf.lv0 => cdc[i] = FallThroughDc)
            /\ (ctemp[i] >= conf.lv3 => cdc[i] = RInt(Lv2dcGet("lv3")))

\* one temperature below lv0 gave the idle duty, one on lv3 gave lv3's duty
C4_Witness ==
    /\ ~conf.linear
    /\ Lv0Lowest(conf)
    /\ ctemp[1] < conf.lv0 /\ cdc[1] = FallThroughDc
    /\ ctemp[2] = conf.lv3 /\ cdc[2] = RInt(100)

\* C5: in linear mode with lv0 < lv3 the duty is non-decreasing in the
\* temperature, lv0's duty at or below lv0 and lv3's duty at or above lv3.
C5_LinearMonotoneClamped ==
    (conf.linear /\ conf.lv0 < conf.lv3 /\ cdc[1] # NoDc /\ cdc[2] # NoDc) =>
        /\ (ctemp[1] <= ctemp[2] => RLeq(cdc[1], cdc[2]))
        /\ \A i \in 1..2 :
              /\ (ctemp[i] <= conf.lv0 => cdc[i] = RInt(Lv2dcGet("lv0")))
              /\ (ctemp[i] >= conf.lv3 => cdc[i] = RInt(Lv2dcGet("lv3")))

\* two temperatures inside the ramp, and one at or above lv3
C5_Witness ==
    /\ conf.linear /\ conf.lv0 < conf.lv3
    /\ ctemp[1] < ctemp[2] /\ ctemp[2] >= conf.lv3
    /\ RLt(RInt(25), cdc[1]) /\ RLt(cdc[1], cdc[2])
    /\ cdc[2] = RInt(100)

\* C10: a get_dc call that finds the fan-enabled flag false returns the
\* disabled duty 0.1, whatever the temperature, the clock and the cache
\* hold; so the first get_dc after a toggle to disabled returns it.
C10_DisabledTickIdle ==
    [][(fpc = "get" /\ fpc' = "change" /\ run = 0) => dc' = DisabledDc]_vars

\* a disabled tick answered 0.1 while a fresh cache held another duty
C10_Witness ==
    /\ run = 0 /\ fpc = "change" /\ dc = DisabledDc
    /\ get_cache.dc # NoDc /\ get_cache.dc # DisabledDc
    /\ now - get_cache.time <= RefreshInterval

\* n copies of sample c
Rep(c, n) == [i \in 1..n |-> c]

\* the three streams of the claim
ClickStream == <<1, 1, 1, 0, 0>> \o Rep(1, DefaultWait + 1)
TwiceStream == <<1, 0, 1, 0, 1, 1, 1>>
PressStream == <<1, 1>> \o Rep(0, DefaultSize + 1)

\* C2: with the default thresholds (wait = 7, size = 18) and an empty
\* window at the start, the first action queued is 'click' once the stream
\* 1,1,1,0,0,1 x (wait+1) has been read, 'twice' once 1,0,1,0,1,1,1 has been
\* read, and 'press' once 1,1,0 x (size+1) has been read.
C2_StreamsFirstAction ==
    /\ fed = ClickStream => (q # <<>> /\ q[1] = "click")
    /\ fed = TwiceStream => (q # <<>> /\ q[1] = "twice")
    /\ fed = PressStream => (q # <<>> /\ q[1] = "press")

\* the long-press stream has been read to its end and queued one 'press'
C2_Witness == fed = PressStream /\ q = <<"press">>

\* the three expressions: 1+0+1{wt,}, 1+0+1+0+1{3,} and 1+0{sz,}
ClickRe(wt) == << <<1, 1>>, <<0, 1>>, <<1, wt>> >>
TwiceRe == << <<1, 1>>, <<0, 1>>, <<1, 1>>, <<0, 1>>, <<1, 3>> >>
PressRe(sz) == << <<1, 1>>, <<0, sz>> >>

\* C3: the action an iteration of read_key returns is 'click' if the window
\* matches the click pattern, else 'twice' if it matches the double-click
\* pattern, else 'press' if it matches the long-press pattern, and none if
\* the window matches no pattern.
C3_FirstInFixedOrder ==
    s # <<>> =>
        ret = (IF Match(ClickRe(wait), s) THEN "click"
               ELSE IF Match(TwiceRe, s) THEN "twice"
               ELSE IF Match(PressRe(size), s) THEN "press"
               ELSE "none")

\* a window that matches both the click and the double-click pattern
C3_Witness ==
    /\ Match(ClickRe(wait), s)
    /\ Match(TwiceRe, s)
    /\ ret = "click"
    /\ q # <<>>

\* bytes moved in elapsed seconds, as MB/s: bytes / elapsed / 1,048,576
MBps(bytes, elapsed) == Rat(bytes, elapsed * 1048576)

Sda == <<"s", "d", "a">>
Sdb == <<"s", "d", "b">>

\* the poll this step made, if it made one
Polled(fn) == npolls' # npolls /\ io_call'.fn = fn /\ io_call'.raw # NoSample

\* C6: a poll of a device with a stored baseline, at a later clock reading,
\* sets the rate of each direction whose counter did not decrease to
\* (new - baseline) / elapsed in MB/s (sectors times the disk's sector size
\* for a disk), makes the new sample the baseline, and leaves the rates and
\* baselines of every other device as they were.
C6_RateFromBaseline ==
    [][ /\ Polled("interface") =>
            LET k == io_call'.key
                new == io_call'.raw
                last == raw_interface_io[k]
                el == new.time - last.time
            IN  (last # NoSample /\ el > 0) =>
                  /\ new.rx >= last.rx =>
                       interface_io_rate'[k].rx = MBps(new.rx - last.rx, el)
                  /\ new.tx >= last.tx =>
                       interface_io_rate'[k].tx = MBps(new.tx - last.tx, el)
                  /\ raw_interface_io'[k] = new
                  /\ \A o \in Interfaces \ {k} :
                       /\ raw_interface_io'[o] = raw_interface_io[o]
                       /\ interface_io_rate'[o] = interface_io_rate[o]
                  /\ UNCHANGED <<raw_disk_io, disk_io_rate>>
        /\ Polled("disk") =>
            LET k == io_call'.key
                new == io_call'.raw
                last == raw_disk_io[k]
                el == new.time - last.time
                ss == disk_sector_sizes'[k]
            IN  (last # NoSample /\ el > 0) =>
                  /\ new.rx >= last.rx =>
                       disk_io_rate'[k].rx = MBps((new.rx - last.rx) * ss, el)
                  /\ new.tx >= last.tx =>
                       disk_io_rate'[k].tx = MBps((new.tx - last.tx) * ss, el)
                  /\ raw_disk_io'[k] = new
                  /\ \A o \in Disks \ {k} :
                       /\ raw_disk_io'[o] = raw_disk_io[o]
                       /\ disk_io_rate'[o] = disk_io_rate[o]
                  /\ UNCHANGED <<raw_interface_io, interface_io_rate>>
      ]_vars

\* disk sda, 512-byte sectors, polled as sda1: 10 MB more read over 5 s is
\* 2.0 MB/s, while sdb keeps its baseline and its rates
C6_Witness ==
    /\ io_call.fn = "disk" /\ io_call.key = Sda
    /\ disk_sector_sizes[Sda] = 512
    /\ raw_disk_io[Sda] = io_call.raw
    /\ io_call.raw.time = 105
    /\ disk_io_rate[Sda] = [rx |-> RInt(2), tx |-> RInt(0)]
    /\ raw_disk_io[Sdb] # NoSample
    /\ disk_io_rate[Sdb] = [rx |-> RInt(0), tx |-> RInt(0)]

\* C7: the first poll of a device (its key holds no sample) stores the
\* sample as the baseline and sets both rates to 0, whatever the counters.
C7_FirstPollBaseline ==
    [][ /\ Polled("interface") =>
            LET k == io_call'.key
            IN  raw_interface_io[k] = NoSample =>
                  /\ raw_interface_io'[k] = io_call'.raw
                  /\ interface_io_rate'[k] = [rx |-> RInt(0), tx |-> RInt(0)]
        /\ Polled("disk") =>
            LET k == io_call'.key
            IN  raw_disk_io[k] = NoSample =>
                  /\ raw_disk_io'[k] = io_call'.raw
                  /\ disk_io_rate'[k] = [rx |-> RInt(0), tx |-> RInt(0)]
      ]_vars

\* wlan0 polled for the first time, after eth0 has got a non-zero rate
C7_Witness ==
    /\ io_call.fn = "interface" /\ io_call.key = "wlan0"
    /\ raw_interface_io["wlan0"] = io_call.raw
    /\ interface_io_rate["wlan0"] = [rx |-> RInt(0), tx |-> RInt(0)]
    /\ interface_io_rate["eth0"] # NoRate
    /\ interface_io_rate["eth0"].rx # RInt(0)
    /\ npolls = 3

\* C8 as stated: a poll, at a later clock reading, that finds a counter
\* below the baseline's sets that direction's rate to 0 and makes the new
\* sample the baseline.
C8_CounterResetClamped ==
    [][ /\ Polled("interface") =>
            LET k == io_call'.key
                new == io_call'.raw
                last == raw_interface_io[k]
            IN  (last # NoSample /\ new.time > last.time) =>
                  /\ new.rx < last.rx => interface_io_rate'[k].rx = RInt(0)
                  /\ new.tx < last.tx => interface_io_rate'[k].tx = RInt(0)
                  /\ (new.rx < last.rx \/ new.tx < last.tx) =>
                        raw_interface_io'[k] = new
        /\ Polled("disk") =>
            LET k == io_call'.key
                new == io_call'.raw
                last == raw_disk_io[k]
            IN  (last # NoSample /\ new.time > last.time) =>
                  /\ new.rx < last.rx => disk_io_rate'[k].rx = RInt(0)
                  /\ new.tx < last.tx => disk_io_rate'[k].tx = RInt(0)
                  /\ (new.rx < last.rx \/ new.tx < last.tx) =>
                        raw_disk_io'[k] = new
      ]_vars

\* C9 as stated: a poll whose clock reading is not later than the
\* baseline's raises nothing and leaves the device's rates and baseline
\* as they were.
C9_NonPositiveElapsedDiscarded ==
    [][ /\ Polled("interface") =>
            LET k == io_call'.key
                last == raw_interface_io[k]
            IN  (last # NoSample /\ io_call'.raw.time <= last.time) =>
                  /\ io_err' = "none"
                  /\ interface_io_rate'[k] = interface_io_rate[k]
                  /\ raw_interface_io'[k] = last
        /\ Polled("disk") =>
            LET k == io_call'.key
                last == raw_disk_io[k]
            IN  (last # NoSample /\ io_call'.raw.time <= last.time) =>
                  /\ io_err' = "none"
                  /\ disk_io_rate'[k] = disk_io_rate[k]
                  /\ raw_disk_io'[k] = last
      ]_vars

\* C11: change_dc writes only when the duty differs from the last one it
\* wrote: the first tick writes, a tick whose duty is the one last written
\* does not write, and a write never repeats the value of the write before.
C11_WriteOnChange ==
    [][ (fpc = "change" /\ fpc' = "get") =>
          /\ pin13 = NoWrite => (wres' = "ok" /\ pin13' # NoWrite)
          /\ (pin13 # NoWrite /\ OffRatio(dc) = pin13) => wres' = "none"
          /\ wres' = "none" => pin13' = pin13
          /\ (wres' = "ok" /\ pin13 # NoWrite) => pin13' # pin13
      ]_vars

\* after a write of one duty and a tick that did not write, another duty
\* has been written
C11_Witness ==
    /\ wres = "ok"
    /\ pin13 = Rat(999, 1000)
    /\ get_cache.dc # NoDc
    /\ now > StartNow + 1

\* C16: with the fan enabled, get_dc reads the temperature and refills its
\* cache only when more than the refresh interval has passed since the
\* last refill; otherwise it reads no temperature and returns the cached
\* duty, the cache left as it was.
C16_RefreshThrottled ==
    [][ (fpc = "get" /\ fpc' = "change" /\ run # 0) =>
          /\ tread' => (now - get_cache.time > RefreshInterval
                        /\ get_cache'.time = now /\ dc' = get_cache'.dc)
          /\ ~tread' => (dc' = get_cache.dc /\ get_cache' = get_cache)
      ]_vars

\* a second refill, 5.1 s after the first, with ticks answered from the
\* cache in between
C16_Witness ==
    /\ tread /\ fpc = "change"
    /\ get_cache.time = StartNow + RefreshInterval + 1

\* C12: toggling is an atomic flip: whenever no fan_switch call is in
\* progress, the flag is its initial value (1) flipped once per call made.
C12_NoToggleLost ==
    (\A p \in Callers : spc[p] = "idle") =>
        run = (IF nswitch % 2 = 0 THEN 1 ELSE 0)

C14_WindowRetained ==
    [][ /\ (ret # "none" /\ s' # s) =>
              (Len(s') >= 2 /\ SubSeq(s', 1, Len(s') - 1) = LastN(s, size))
        /\ q' # q => (pressed \/ PressStart(s'[Len(s')]))
      ]_vars

\* C14, amended: after a match read_key returns and its next call starts
\* from an empty window, so the window then holds the new sample alone;
\* and no action is queued without a press begun since the action before
\* it, so one press never yields a second action.
C14_ResetNoSecondAction ==
    [][ /\ (ret # "none" /\ s' # s) => Len(s') = 1
        /\ q' # q => (pressed \/ PressStart(s'[Len(s')]))
      ]_vars

\* a press was queued, the hold went on in a fresh window and was let go,
\* and nothing more has been queued
C14_Witness ==
    /\ q = <<"press">>
    /\ ret = "none"
    /\ Len(s) >= 3 /\ s[1] = 0 /\ s[Len(s)] = 1
    /\ ~pressed

\* the lengths of the runs of equal samples of a stream, in order
RECURSIVE RunList(_)
RunList(str) ==
    IF str = <<>> THEN <<>>
    ELSE LET k == CHOOSE n \in 1..Len(str) :
                     /\ \A i \in 1..n : str[i] = str[1]
                     /\ (n = Len(str) \/ str[n + 1] # str[1])
         IN  <<k>> \o RunList(SubSeq(str, k + 1, Len(str)))

\* the stream so far is idle samples followed by exactly one instance of
\* a gesture, completed by the last sample
ClickDone(rl) ==
    /\ Len(rl) = 3 /\ rl[2] < DefaultSize /\ rl[3] = DefaultWait
TwiceDone(rl) ==
    /\ Len(rl) = 5 /\ rl[2] < DefaultSize /\ rl[3] < DefaultWait
    /\ rl[4] < DefaultSize /\ rl[5] = 3
PressDone(rl) ==
    /\ Len(rl) = 2 /\ rl[2] = DefaultSize

RECURSIVE SumFrom(_, _)
SumFrom(rl, i) == IF i > Len(rl) THEN 0 ELSE rl[i] + SumFrom(rl, i + 1)

\* C15: the window never drops a sample still needed: when the samples
\* read so far, beginning with idle samples, complete a Click (a press
\* shorter than size, then wait released samples), a DoubleClick or a
\* LongPress, the window still reaches back to the released sample
\* before the press, and the gesture is the action returned.
C15_InstanceRecognized ==
    LET rl == RunList(fed)
        kind == IF ClickDone(rl) THEN "click"
                ELSE IF TwiceDone(rl) THEN "twice"
                ELSE IF PressDone(rl) THEN "press" ELSE "none"
    IN  (fed # <<>> /\ fed[1] = 1 /\ kind # "none") =>
            /\ Len(s) > SumFrom(rl, 2)
            /\ ret = kind

\* the drives of the last poll whose temperature could be read
Readable == { d \in temp_call.disks : temp_call.out[d].ok }

\* C17: the stored average is computed from the readable drives only:
\* with at least one readable, it is the sum of their temperatures
\* divided by their number.
C17_AverageOfReadable ==
    (temp_call.polled /\ Readable # {}) =>
        disk_temp_average =
            RDiv(TempSum(Readable, temp_call.out, f_temp),
                 RInt(Cardinality(Readable)))

C19_FailedWriteRetried ==
    [][ (fpc = "change" /\ fpc' # "change" /\ wres' \in {"error", "raised"}) =>
          (fpc' = "get" /\ chg_cache' # dc)
      ]_vars

\* C20: the sector size of a disk is resolved once: a poll of a disk whose
\* size is held asks for no size, leaves the held size as it is, and
\* computes its rates with it; and no poll touches another disk's size.
C20_SectorSizeMemoized ==
    [][ (npolls' # npolls /\ io_call'.fn = "disk") =>
          LET k == io_call'.key
              held == disk_sector_sizes[k]
              new == io_call'.raw
              last == raw_disk_io[k]
              el == new.time - last.time
          IN  /\ \A o \in Disks \ {k} :
                    disk_sector_sizes'[o] = disk_sector_sizes[o]
              /\ held # NoSize =>
                    /\ ~io_call'.queried
                    /\ disk_sector_sizes'[k] = held
                    /\ (last # NoSample /\ el > 0) =>
                          /\ disk_io_rate'[k].rx =
                                MBps((new.rx - last.rx) * held, el)
                          /\ disk_io_rate'[k].tx =
                                MBps((new.tx - last.tx) * held, el)
      ]_vars

\* sda, resolved to 4096-byte sectors by its first poll, polled again
\* without a query: 10 MB of sectors more over 5 s at 4096 bytes each
C20_Witness ==
    /\ io_call.fn = "disk" /\ io_call.key = Sda
    /\ ~io_call.queried
    /\ disk_sector_sizes[Sda] = 4096
    /\ disk_sector_sizes[Sdb] = NoSize
    /\ io_call.raw.time = 105
    /\ disk_io_rate[Sda].rx = RInt(16)

\* the samples read so far are idle samples, then one hold of at least
\* size samples, then possibly the release
HoldOnly ==
    LET rl == RunList(fed)
    IN  /\ fed # <<>> /\ fed[1] = 1
        /\ Len(rl) \in {2, 3}
        /\ rl[2] >= size

====
